---- MODULE Spec2Model ----
(***************************************************************************)
(* celery-unique: the uniqueness-tracking protocol of                      *)
(* celery_unique/core.py (UniqueTaskMixin) over the backends of            *)
(* celery_unique/backends.py (RedisBackend, InMemoryBackend).              *)
(*                                                                         *)
(* Time is counted in ticks, TicksPerSec ticks to the second, so that the  *)
(* int(...total_seconds()) truncation of the code is not the identity.    *)
(* Every "number of seconds" of the code (countdown, expires, ttl) is      *)
(* held as a number of ticks; a whole number of seconds is a multiple of   *)
(* TicksPerSec.                                                            *)
(***************************************************************************)
EXTENDS Integers, Sequences, FiniteSets, TLC

\* ------------------------------------------------------------------ bounds
TicksPerSec == 2
MaxTime == 3
MaxDelay == 3
NumProcs == 2
MaxCalls == 2

Procs == 1..NumProcs

\* One second, as the code's literal 1 (ttl_seconds = 1), in ticks.
OneSecond == TicksPerSec

VARIABLES
    now,            \* the wall clock, datetime.datetime.now(), in ticks
    unique_backend, \* which backend variant the tasks are configured with
    redis,          \* the Redis keyspace behind RedisBackend.redis_client
    tasks,          \* InMemoryBackend.tasks
    ncalls,         \* apply_async calls started so far (uuid source)
    pc,             \* per caller: position inside apply_async
    call,           \* per caller: the arguments of the running apply_async
    local,          \* per caller: the local variables of apply_async
    trace,          \* per caller: the operations the running call has issued
    published,      \* the tasks handed to the underlying apply_async, by call
    revoked,        \* the task ids passed to AsyncResult(task_id).revoke()
    fin,            \* the arguments of the helper methods called on their own
    fout            \* what the helper methods returned for fin

vars == <<now, unique_backend, redis, tasks, ncalls, pc, call, local, trace,
          published, revoked, fin, fout>>

\* ------------------------------------------------------------ Python values
\* Every Python value a task id can be is a record of one shape, so that any
\* two of them compare: None, a str, and the bytes redis stores and returns.
None == [t |-> "None", v |-> <<"", 0>>]
Str(kind, n) == [t |-> "str", v |-> <<kind, n>>]

\* The empty string '' (falsy, like None).
EmptyStr == Str("", 0)

\* A task id issued by the dispatch primitive (str(uuid4())) for the n-th call.
Uuid(n) == Str("uuid", n)

\* A task id chosen by the caller and passed as apply_async(task_id=...).
GivenId == Str("given", 0)

\* str.encode() on the way into redis, bytes.decode() on the way out.
Encode(s) == [t |-> "bytes", v |-> s.v]
Decode(b) == [t |-> "str", v |-> b.v]

\* Python truthiness of a value read from redis: None and b'' are falsy.
Truthy(x) == x # None /\ x.v # EmptyStr.v

\* A dict of keyword options: a function whose domain is the keys supplied.
Some(S) == {{}} \cup {{x} : x \in S}
The(s) == CHOOSE x \in s : TRUE
MkOptions(eta, countdown, expires) ==
    [k \in {n \in {"eta"} : eta # {}} \cup {n \in {"countdown"} : countdown # {}}
            \cup {n \in {"expires"} : expires # {}} |->
        IF k = "eta" THEN The(eta)
        ELSE IF k = "countdown" THEN The(countdown) ELSE The(expires)]
Datetime(at) == [type |-> "datetime", v |-> at]
Number(secs) == [type |-> "number", v |-> secs]

\* ------------------------------------------------------------- the key
UNIQUE_KEY_PREFIX == <<"celery_unique">>

\* The unique_key callables of the model: a static lambda, one that formats
\* its first positional argument (tests/celery_unique/test_core.py), and one
\* that returns its first positional argument, a str given part by part so
\* that a ':' inside it is seen.
KeyGenerator(unique_key, callback_args, callback_kwargs) ==
    IF unique_key = "static" THEN <<"A_UNIQUE_KEY">>
    ELSE IF unique_key = "str" THEN callback_args[1]
    ELSE <<callback_args[1]>>

\* callable(self.unique_key)
Callable(unique_key) == unique_key \in {"static", "first", "str"}

\* A str with every ':' in it escaped.
Escaped(str) == [i \in 1..Len(str) |-> IF str[i] = ":" THEN "\\:" ELSE str[i]]

\* The segments escaped before they are joined.
make_key_escaped(name, unique_key, callback_args, callback_kwargs) ==
    UNIQUE_KEY_PREFIX \o <<":">> \o Escaped(name) \o <<":">>
        \o Escaped(KeyGenerator(unique_key, callback_args, callback_kwargs))

\* The last two segments swapped: prefix, key fragment, task name.
make_key_name_last(name, unique_key, callback_args, callback_kwargs) ==
    UNIQUE_KEY_PREFIX \o <<":">>
        \o KeyGenerator(unique_key, callback_args, callback_kwargs) \o <<":">> \o name

\* '{prefix}:{task_name}:{unique_key}'.format(...)
make_key(name, unique_key, callback_args, callback_kwargs) ==
    UNIQUE_KEY_PREFIX \o <<":">> \o name \o <<":">>
        \o KeyGenerator(unique_key, callback_args, callback_kwargs)

\* ------------------------------------------------------- the qualification
\* The test widened to any option at all (an expires alone would qualify).
_handle_as_unique_any_option(unique_key, backend, options) ==
    /\ Callable(unique_key)
    /\ DOMAIN options # {}
    /\ backend # "None"

\* The test without its eta/countdown conjunct.
_handle_as_unique_unscheduled(unique_key, backend, options) ==
    /\ Callable(unique_key)
    /\ backend # "None"

\* self._handle_as_unique(options)
_handle_as_unique(unique_key, backend, options) ==
    /\ Callable(unique_key)
    /\ ("eta" \in DOMAIN options \/ "countdown" \in DOMAIN options)
    /\ backend # "None"

\* ----------------------------------------------------------------- the TTL
\* Rounded up to the next whole second instead of truncated.
IntSeconds_rounded_up(d) ==
    ((d + TicksPerSec - 1) \div TicksPerSec) * TicksPerSec

\* int(timedelta.total_seconds()): whole seconds, truncated toward zero;
\* d is in ticks and so is the result.
IntSeconds(d) ==
    IF d >= 0 THEN (d \div TicksPerSec) * TicksPerSec
    ELSE -(((-d) \div TicksPerSec) * TicksPerSec)

\* seconds_until_expiry of an expires option read at clock value t.
SecondsUntilExpiry(expires, t) ==
    IF expires.type = "datetime" THEN IntSeconds(expires.v - t) ELSE expires.v

\* The branches swapped: a countdown is preferred to an eta.
TtlBase_countdown_first(task_options, t) ==
    IF "countdown" \in DOMAIN task_options THEN task_options.countdown
    ELSE IF "eta" \in DOMAIN task_options THEN IntSeconds(task_options.eta - t)
    ELSE OneSecond

\* ttl_seconds before the expires block: eta, else countdown, else 1.
TtlBase(task_options, t) ==
    IF "eta" \in DOMAIN task_options THEN IntSeconds(task_options.eta - t)
    ELSE IF "countdown" \in DOMAIN task_options THEN task_options.countdown
    ELSE OneSecond

\* The comparison dropped: an expires always replaces the base.
TtlClamped_always(task_options, t) ==
    IF "expires" \in DOMAIN task_options
    THEN SecondsUntilExpiry(task_options.expires, t)
    ELSE TtlBase(task_options, t)

\* ttl_seconds after the expires block.
TtlClamped(task_options, t) ==
    IF /\ "expires" \in DOMAIN task_options
       /\ SecondsUntilExpiry(task_options.expires, t) < TtlBase(task_options, t)
    THEN SecondsUntilExpiry(task_options.expires, t)
    ELSE TtlBase(task_options, t)

\* The ttl taken to be one second whenever the backend holds a record.
_make_ttl_from_backend(task_options, t) ==
    IF redis # <<>> \/ tasks # <<>> THEN OneSecond
    ELSE IF TtlClamped(task_options, t) <= 0 THEN OneSecond
    ELSE TtlClamped(task_options, t)

\* The floor, and the value returned.
_make_ttl_for_unique_task_record(task_options, t) ==
    IF TtlClamped(task_options, t) <= 0 THEN OneSecond
    ELSE TtlClamped(task_options, t)

\* ------------------------------------------------------------ the backends
\* redis_client.get(key): the stored bytes of a key that has not expired.
RedisGet(key) ==
    IF key \in DOMAIN redis /\ now < redis[key].exp THEN redis[key].value
    ELSE None

\* redis_client.delete(key): the keyspace without key.
RedisDelete(key) == [k \in DOMAIN redis \ {key} |-> redis[k]]

\* redis_client.set(key, value, ex=ttl) is accepted by the server only for a
\* whole, positive number of seconds; anything else is an error reply.
RedisSetAccepts(ex) == ex > 0 /\ ex % TicksPerSec = 0

\* SET ... NX: a live key is left as it is.
RedisSet_nx(key, value, ex) ==
    IF RedisGet(key) # None THEN redis
    ELSE (key :> [value |-> Encode(value), exp |-> now + ex]) @@ redis

\* The ex argument left out: the key never expires within the clock's range.
RedisSet_persistent(key, value, ex) ==
    (key :> [value |-> Encode(value), exp |-> MaxTime + 1]) @@ redis

\* SET ... KEEPTTL: a live key keeps the deadline it had.
RedisSet_keepttl(key, value, ex) ==
    (key :> [value |-> Encode(value),
             exp |-> IF RedisGet(key) # None THEN redis[key].exp ELSE now + ex]) @@ redis

\* redis_client.set(key, value, ex=ttl): the value and its expiry deadline.
RedisSet(key, value, ex) ==
    (key :> [value |-> Encode(value), exp |-> now + ex]) @@ redis

\* The keyspace once the server has dropped what expired by clock value t.
RedisExpire(t) == [k \in {j \in DOMAIN redis : t < redis[j].exp} |-> redis[k]]

\* The guard dropped: whatever redis returned is turned into a str.
RedisBackend_get_task_id_unguarded(key) == Decode(RedisGet(key))

\* RedisBackend.get_task_id: task_id.decode() if task_id else None
RedisBackend_get_task_id(key) ==
    IF Truthy(RedisGet(key)) THEN Decode(RedisGet(key)) ELSE None

\* InMemoryBackend.get_task_id: self.tasks.get(key, None)
InMemoryBackend_get_task_id(key) ==
    IF key \in DOMAIN tasks THEN tasks[key] ELSE None

\* The whole dict emptied instead of one key popped.
InMemoryBackend_revoke_extant_task_clear(key) == <<>>

\* InMemoryBackend.revoke_extant_task: self.tasks.pop(key, None)
InMemoryBackend_revoke_extant_task(key) ==
    [k \in DOMAIN tasks \ {key} |-> tasks[k]]

\* The record is not stored.
InMemoryBackend_create_task_record_dropped(key, task_id, ttl) == tasks

\* InMemoryBackend.create_task_record: self.tasks[key] = task_id (ttl unused)
InMemoryBackend_create_task_record(key, task_id, ttl) ==
    (key :> task_id) @@ tasks

\* self.unique_backend.get_task_id(key) on the configured variant.
get_task_id(key) ==
    IF unique_backend = "redis" THEN RedisBackend_get_task_id(key)
    ELSE InMemoryBackend_get_task_id(key)

\* ------------------------------------------------------------ the callers
\* An exception instance of class cls.
Err(cls) == [t |-> "error", v |-> <<cls, 0>>]

\* The exception replaced by one of the package's own.
Propagated_wrapped(exc) == Err("UniqueTaskError")

\* What the caller of apply_async receives when an operation raises exc:
\* apply_async and _revoke_extant_task have no try/except.
Propagated(exc) == exc

\* The failed operation is tried again.
Raise_retried(at) == at

\* A failure of the revoke primitive is swallowed and the call goes on.
Raise_swallowed(at) == IF at = "revoke" THEN "delete" ELSE "raised"

\* A failure of the record keeping is swallowed and the handle is returned.
Raise_returns_handle(at) == IF at \in {"ttl", "record"} THEN "returned" ELSE "raised"

\* Where control goes when the statement `at` raises: out of apply_async.
Raise(at) == "raised"

NoCall ==
    [name |-> <<>>, unique_key |-> "None", backend |-> "None", args |-> <<>>,
     kwargs |-> <<>>, task_id |-> None, options |-> MkOptions({}, {}, {})]

NoLocal ==
    [serial |-> 0, unique |-> FALSE, key |-> <<>>,
     task_id |-> None, rv |-> None, ttl |-> 0, sent |-> NoCall, exc |-> None]

\* One operation a call issued: on the backend, the revoke primitive or the
\* underlying apply_async.
Event(op, key, id, ttl) == [op |-> op, key |-> key, id |-> id, ttl |-> ttl]

\* Steps 2 and 3 reversed: publish first, then look up and revoke.
Goto_publish_first(at, unique, task_id) ==
    CASE at = "enter" -> "publish"
      [] at = "publish" -> IF unique THEN "lookup" ELSE "returned"
      [] at = "lookup" -> IF task_id # None THEN "revoke" ELSE "ttl"
      [] at = "revoke" -> "delete"
      [] at = "delete" -> "ttl"
      [] at = "ttl" -> "record"
      [] at = "record" -> "returned"

\* The `is not None` test inverted.
Goto_inverted_test(at, unique, task_id) ==
    CASE at = "enter" -> IF unique THEN "lookup" ELSE "publish"
      [] at = "lookup" -> IF task_id = None THEN "revoke" ELSE "publish"
      [] at = "revoke" -> "delete"
      [] at = "delete" -> "publish"
      [] at = "publish" -> IF unique THEN "ttl" ELSE "returned"
      [] at = "ttl" -> "record"
      [] at = "record" -> "returned"

\* The extant task is looked up but never revoked.
Goto_skips_revoke(at, unique, task_id) ==
    CASE at = "enter" -> IF unique THEN "lookup" ELSE "publish"
      [] at = "lookup" -> "publish"
      [] at = "revoke" -> "delete"
      [] at = "delete" -> "publish"
      [] at = "publish" -> IF unique THEN "ttl" ELSE "returned"
      [] at = "ttl" -> "record"
      [] at = "record" -> "returned"

\* A loop: after the delete the key is looked up again.
Goto_rechecks(at, unique, task_id) ==
    CASE at = "enter" -> IF unique THEN "lookup" ELSE "publish"
      [] at = "lookup" -> IF task_id # None THEN "revoke" ELSE "publish"
      [] at = "revoke" -> "delete"
      [] at = "delete" -> "lookup"
      [] at = "publish" -> IF unique THEN "ttl" ELSE "returned"
      [] at = "ttl" -> "record"
      [] at = "record" -> "returned"

\* The ttl and the record follow every publish, qualifying or not.
Goto_always_records(at, unique, task_id) ==
    CASE at = "enter" -> IF unique THEN "lookup" ELSE "publish"
      [] at = "lookup" -> IF task_id # None THEN "revoke" ELSE "publish"
      [] at = "revoke" -> "delete"
      [] at = "delete" -> "publish"
      [] at = "publish" -> "ttl"
      [] at = "ttl" -> "record"
      [] at = "record" -> "returned"

\* The extant task is revoked but its record is left in the backend.
Goto_keeps_record(at, unique, task_id) ==
    CASE at = "enter" -> IF unique THEN "lookup" ELSE "publish"
      [] at = "lookup" -> IF task_id # None THEN "revoke" ELSE "publish"
      [] at = "revoke" -> "publish"
      [] at = "delete" -> "publish"
      [] at = "publish" -> IF unique THEN "ttl" ELSE "returned"
      [] at = "ttl" -> "record"
      [] at = "record" -> "returned"

\* The order of the statements of apply_async and _revoke_extant_task: where
\* control goes after the statement `at`.
Goto(at, unique, task_id) ==
    CASE at = "enter" -> IF unique THEN "lookup" ELSE "publish"
      [] at = "lookup" -> IF task_id # None THEN "revoke" ELSE "publish"
      [] at = "revoke" -> "delete"
      [] at = "delete" -> "publish"
      [] at = "publish" -> IF unique THEN "ttl" ELSE "returned"
      [] at = "ttl" -> "record"
      [] at = "record" -> "returned"

\* The task_id argument is not passed on.
Sent_without_task_id(c) == [c EXCEPT !.task_id = None]

\* What apply_async hands to super().apply_async: args, kwargs, task_id and
\* **options as the caller gave them.
Sent(c) == c

\* When the broker will release a published task: celery turns a countdown
\* into an eta counted from the publish, and otherwise uses the eta given.
RunAt(options, t) ==
    IF "countdown" \in DOMAIN options THEN t + options.countdown
    ELSE IF "eta" \in DOMAIN options THEN options.eta
    ELSE t

\* The task id of the handle the underlying apply_async returns: the caller's
\* task_id when the base class honours it (celery.Task), a new uuid otherwise
\* (and always for tests.helpers.SimpleFakeTaskBase).
HandleIds(task_id, serial) ==
    {Uuid(serial)} \cup {i \in {task_id} : i # None /\ i # EmptyStr}

NoFin == [unique_key |-> "None", backend |-> "None", options |-> MkOptions({}, {}, {}), t |-> 0]
NoFout == [unique |-> <<>>, ttl |-> <<>>]

InitProtocol ==
    /\ now = 0
    /\ unique_backend \in {"redis", "memory"}
    /\ redis = <<>>
    /\ tasks = <<>>
    /\ ncalls = 0
    /\ pc = [p \in Procs |-> "idle"]
    /\ call = [p \in Procs |-> NoCall]
    /\ local = [p \in Procs |-> NoLocal]
    /\ trace = [p \in Procs |-> <<>>]
    /\ published = <<>>
    /\ revoked = {}

Init ==
    /\ InitProtocol
    /\ fin = NoFin
    /\ fout = NoFout

\* The inputs of a call started at clock value t. A qualifying call is one
\* of a task configured with a unique_key callable and a backend, given an
\* eta or a countdown; a pass-through call lacks one of the three.
Names == {<<"A_TASK_NAME">>}
ArgsSet == {<<"1">>, <<"2">>}
TaskIds == {None, GivenId}

Inputs(names, unique_keys, backends, args, task_ids, options) ==
    [name : names, unique_key : unique_keys, backend : backends, args : args,
     kwargs : {<<>>}, task_id : task_ids, options : options]

\* An immediate dispatch, a task without key generator, a task without backend.
PassThroughCalls(t) ==
    Inputs(Names, {"first"}, {unique_backend}, {<<"1">>}, {None}, {MkOptions({}, {}, {})})
        \cup Inputs(Names, {"None"}, {unique_backend}, {<<"1">>}, {None},
                    {MkOptions({}, {OneSecond}, {})})
        \cup Inputs(Names, {"first"}, {"None"}, {<<"1">>}, {None},
                    {MkOptions({t + MaxDelay}, {}, {})})

\* The calls of the concurrent callers: a countdown of one second on one key,
\* with or without a task-id override, the same on another key, and an
\* immediate dispatch.
Calls(t) ==
    Inputs(Names, {"first"}, {unique_backend}, {<<"1">>}, TaskIds,
           {MkOptions({}, {OneSecond}, {})})
        \cup Inputs(Names, {"first"}, {unique_backend}, {<<"2">>}, {None},
                    {MkOptions({}, {OneSecond}, {})})
        \cup Inputs(Names, {"first"}, {unique_backend}, {<<"1">>}, {None},
                    {MkOptions({}, {}, {})})

\* The calls of the single caller: an eta that is overdue, less than a second
\* ahead, or the longest delay ahead; a countdown of a fraction of a second,
\* of one second, or of the longest delay; the longest countdown with an
\* expires of one second, as a number or as a point in time.
SeqOptions(t) ==
    {MkOptions({t + d}, {}, {}) : d \in {-1, 1, MaxDelay}}
        \cup {MkOptions({}, {d}, {}) : d \in {1, OneSecond, MaxDelay}}
        \cup {MkOptions({}, {MaxDelay}, {x}) : x \in {Number(OneSecond), Datetime(t + OneSecond)}}

SeqCalls(t) ==
    Inputs(Names, {"first"}, {unique_backend}, {<<"1">>}, {None}, SeqOptions(t))
        \cup Inputs(Names, {"first"}, {unique_backend}, ArgsSet, TaskIds,
                    {MkOptions({}, {OneSecond}, {})})
        \cup PassThroughCalls(t)

\* apply_async is entered: should_handle_as_unique_task is decided and, when
\* it holds, the key is made (core.py 39-44).
Enter(p, c) ==
    /\ ncalls' = ncalls + 1
    /\ call' = [call EXCEPT ![p] = c]
    /\ LET u == _handle_as_unique(c.unique_key, c.backend, c.options) IN
        /\ local' = [local EXCEPT ![p] =
                [NoLocal EXCEPT !.serial = ncalls + 1, !.unique = u,
                    !.key = IF u THEN make_key(c.name, c.unique_key, c.args, c.kwargs)
                            ELSE <<>>]]
        /\ trace' = [trace EXCEPT ![p] =
                IF u THEN <<Event("make_key", local'[p].key, None, 0)>> ELSE <<>>]
        /\ pc' = [pc EXCEPT ![p] = Goto("enter", u, None)]
    /\ UNCHANGED <<now, unique_backend, redis, tasks, published, revoked, fin, fout>>

\* A caller (a thread or a process of the application) calls apply_async
\* while other callers may be inside theirs. Callers are interchangeable, so
\* they are numbered in the order in which they enter.
Start(p, c) ==
    /\ pc[p] = "idle"
    /\ \A q \in Procs : q < p => pc[q] # "idle"
    /\ Enter(p, c)

\* The single caller calls apply_async again once its last call is over.
Caller == 1
StartSeq(c) ==
    /\ pc[Caller] \in {"idle", "returned", "raised"}
    /\ ncalls < MaxCalls
    /\ Enter(Caller, c)

\* _revoke_extant_task: task_id = self.unique_backend.get_task_id(key)
Lookup(p) ==
    /\ pc[p] = "lookup"
    /\ local' = [local EXCEPT ![p].task_id = get_task_id(local[p].key)]
    /\ trace' = [trace EXCEPT ![p] =
            Append(@, Event("get_task_id", local[p].key, local'[p].task_id, 0))]
    /\ pc' = [pc EXCEPT ![p] = Goto("lookup", local[p].unique, local'[p].task_id)]
    /\ UNCHANGED <<now, unique_backend, redis, tasks, ncalls, call, published,
                   revoked, fin, fout>>

\* _revoke_extant_task: self.app.AsyncResult(task_id).revoke()
Revoke(p) ==
    /\ pc[p] = "revoke"
    /\ revoked' = revoked \cup {local[p].task_id}
    /\ trace' = [trace EXCEPT ![p] =
            Append(@, Event("revoke", local[p].key, local[p].task_id, 0))]
    /\ pc' = [pc EXCEPT ![p] = Goto("revoke", local[p].unique, local[p].task_id)]
    /\ UNCHANGED <<now, unique_backend, redis, tasks, ncalls, call, local,
                   published, fin, fout>>

\* _revoke_extant_task: self.unique_backend.revoke_extant_task(key)
Delete(p) ==
    /\ pc[p] = "delete"
    /\ IF unique_backend = "redis"
       THEN redis' = RedisDelete(local[p].key) /\ UNCHANGED tasks
       ELSE tasks' = InMemoryBackend_revoke_extant_task(local[p].key) /\ UNCHANGED redis
    /\ trace' = [trace EXCEPT ![p] =
            Append(@, Event("revoke_extant_task", local[p].key, None, 0))]
    /\ pc' = [pc EXCEPT ![p] = Goto("delete", local[p].unique, local[p].task_id)]
    /\ UNCHANGED <<now, unique_backend, ncalls, call, local, published, revoked,
                   fin, fout>>

\* rv = super(UniqueTaskMixin, self).apply_async(args, kwargs, task_id, **options)
Publish(p, id) ==
    /\ pc[p] = "publish"
    /\ id \in HandleIds(Sent(call[p]).task_id, local[p].serial)
    /\ local' = [local EXCEPT ![p].rv = id, ![p].sent = Sent(call[p])]
    /\ published' = (local[p].serial :>
            [serial |-> local[p].serial, id |-> id, key |-> local[p].key,
             name |-> call[p].name,
             runAt |-> RunAt(Sent(call[p]).options, now),
             tracked |-> FALSE, deadline |-> 0]) @@ published
    /\ trace' = [trace EXCEPT ![p] =
            Append(@, Event("apply_async", local[p].key, id, 0))]
    /\ pc' = [pc EXCEPT ![p] = Goto("publish", local[p].unique, local[p].task_id)]
    /\ UNCHANGED <<now, unique_backend, redis, tasks, ncalls, call, revoked, fin, fout>>

\* ttl = self._make_ttl_for_unique_task_record(options)
MakeTtl(p) ==
    /\ pc[p] = "ttl"
    /\ local' = [local EXCEPT ![p].ttl =
            _make_ttl_for_unique_task_record(call[p].options, now)]
    /\ trace' = [trace EXCEPT ![p] =
            Append(@, Event("_make_ttl", local[p].key, None, local'[p].ttl))]
    /\ pc' = [pc EXCEPT ![p] = Goto("ttl", local[p].unique, local[p].task_id)]
    /\ UNCHANGED <<now, unique_backend, redis, tasks, ncalls, call, published,
                   revoked, fin, fout>>

\* self.unique_backend.create_task_record(key, rv.task_id, ttl); return rv.
\* A ttl the redis server refuses makes the call raise instead of returning.
Record(p) ==
    /\ pc[p] = "record"
    /\ trace' = [trace EXCEPT ![p] =
            Append(@, Event("create_task_record", local[p].key, local[p].rv, local[p].ttl))]
    /\ IF unique_backend = "redis"
       THEN /\ redis' = IF RedisSetAccepts(local[p].ttl)
                        THEN RedisSet(local[p].key, local[p].rv, local[p].ttl)
                        ELSE redis
            /\ pc' = [pc EXCEPT ![p] =
                    IF RedisSetAccepts(local[p].ttl)
                    THEN Goto("record", local[p].unique, local[p].task_id)
                    ELSE Raise("record")]
            /\ published' = IF RedisSetAccepts(local[p].ttl)
                    THEN [published EXCEPT ![local[p].serial].tracked = TRUE,
                              ![local[p].serial].deadline = now + local[p].ttl]
                    ELSE published
            /\ local' = IF RedisSetAccepts(local[p].ttl) THEN local
                        ELSE [local EXCEPT ![p].exc = Propagated(Err("ResponseError"))]
            /\ UNCHANGED tasks
       ELSE /\ tasks' = InMemoryBackend_create_task_record(
                            local[p].key, local[p].rv, local[p].ttl)
            /\ pc' = [pc EXCEPT ![p] = Goto("record", local[p].unique, local[p].task_id)]
            /\ published' = [published EXCEPT ![local[p].serial].tracked = TRUE]
            /\ UNCHANGED <<redis, local>>
    /\ UNCHANGED <<now, unique_backend, ncalls, call, revoked, fin, fout>>

\* The in-memory dict swept as well.
Tick_sweeps_memory ==
    /\ now < MaxTime
    /\ now' = now + 1
    /\ redis' = RedisExpire(now + 1)
    /\ tasks' = [k \in {j \in DOMAIN tasks : j \in DOMAIN fout.written
                            /\ now + 1 < fout.written[j].at + fout.written[j].ttl}
                    |-> tasks[k]]
    /\ UNCHANGED <<unique_backend, ncalls, pc, call, local, trace,
                   published, revoked, fin, fout>>

\* Time passes; the redis server drops the keys whose deadline has come.
Tick ==
    /\ now < MaxTime
    /\ now' = now + 1
    /\ redis' = RedisExpire(now + 1)
    /\ UNCHANGED <<unique_backend, tasks, ncalls, pc, call, local, trace,
                   published, revoked, fin, fout>>

\* Time passes while no caller is inside apply_async: the concurrent callers
\* race within one clock reading, and records expire between their calls.
TickBetweenCalls ==
    /\ \A p \in Procs : pc[p] \in {"idle", "returned", "raised"}
    /\ Tick

Next ==
    \/ \E p \in Procs : \E c \in Calls(now) : Start(p, c)
    \/ \E p \in Procs : Lookup(p)
    \/ \E p \in Procs : Revoke(p)
    \/ \E p \in Procs : Delete(p)
    \/ \E p \in Procs : \E id \in HandleIds(call[p].task_id, local[p].serial) : Publish(p, id)
    \/ \E p \in Procs : MakeTtl(p)
    \/ \E p \in Procs : Record(p)
    \/ TickBetweenCalls

Spec == Init /\ [][Next]_vars

NextSeq ==
    \/ \E c \in SeqCalls(now) : StartSeq(c)
    \/ Lookup(Caller)
    \/ Revoke(Caller)
    \/ Delete(Caller)
    \/ \E id \in HandleIds(call[Caller].task_id, local[Caller].serial) : Publish(Caller, id)
    \/ MakeTtl(Caller)
    \/ Record(Caller)
    \/ Tick

SpecSeq == Init /\ [][NextSeq]_vars

\* ------------------------------------------------- the helpers on their own
\* _handle_as_unique and _make_ttl_for_unique_task_record called directly, as
\* the unit tests do, on every configuration and option dict of the bounds.
FunDelays == (0 - MaxDelay)..MaxDelay
FunInputs ==
    [unique_key : {"None", "not callable", "static", "first"},
     backend : {"None", "redis", "memory"},
     options : {MkOptions(e, c, x) :
                    e \in Some({d : d \in FunDelays}),
                    c \in Some(FunDelays),
                    x \in Some({Number(d) : d \in FunDelays}
                               \cup {Datetime(d) : d \in FunDelays})},
     t : {0}]

InitFun ==
    /\ InitProtocol
    /\ fin \in FunInputs
    /\ fout = NoFout

CallHandleAsUnique ==
    /\ fout.unique = <<>>
    /\ fout' = [fout EXCEPT !.unique =
            <<_handle_as_unique(fin.unique_key, fin.backend, fin.options)>>]
    /\ UNCHANGED <<now, unique_backend, redis, tasks, ncalls, pc, call, local,
                   trace, published, revoked, fin>>

CallMakeTtl ==
    /\ fout.ttl = <<>>
    /\ fout' = [fout EXCEPT !.ttl =
            <<_make_ttl_for_unique_task_record(fin.options, fin.t)>>]
    /\ UNCHANGED <<now, unique_backend, redis, tasks, ncalls, pc, call, local,
                   trace, published, revoked, fin>>

NextFun == CallHandleAsUnique \/ CallMakeTtl

SpecFun == InitFun /\ [][NextFun]_vars

\* ------------------------------------------------ the backends on their own
\* create_task_record, get_task_id and revoke_extant_task called directly on
\* a backend, as tests/celery_unique/test_backends.py does. fin is the last
\* call made and fout what it returned, with the last accepted create per key.
MaxOps == 3

BackKeys == {make_key(n, "first", a, <<>>) : n \in Names, a \in ArgsSet}
BackIds == {Uuid(1), Uuid(2), EmptyStr}
BackTtls == {1, OneSecond}

NoOp == [n |-> 0, op |-> "none", key |-> <<>>, task_id |-> None, ttl |-> 0]
NoRet == [result |-> None, raised |-> FALSE, written |-> <<>>]

InitBack ==
    /\ InitProtocol
    /\ fin = NoOp
    /\ fout = NoRet

\* backend.create_task_record(key, task_id, ttl); redis raises on a ttl it
\* does not accept.
BackendCreate(key, task_id, ttl) ==
    /\ fin.n < MaxOps
    /\ fin' = [n |-> fin.n + 1, op |-> "create_task_record", key |-> key,
               task_id |-> task_id, ttl |-> ttl]
    /\ LET ok == unique_backend = "memory" \/ RedisSetAccepts(ttl) IN
        /\ fout' = [result |-> None, raised |-> ~ok,
                    written |-> IF ok
                                THEN (key :> [at |-> now, ttl |-> ttl, task_id |-> task_id])
                                        @@ fout.written
                                ELSE fout.written]
        /\ IF unique_backend = "redis"
           THEN /\ redis' = IF ok THEN RedisSet(key, task_id, ttl) ELSE redis
                /\ UNCHANGED tasks
           ELSE /\ tasks' = InMemoryBackend_create_task_record(key, task_id, ttl)
                /\ UNCHANGED redis
    /\ UNCHANGED <<now, unique_backend, ncalls, pc, call, local, trace,
                   published, revoked>>

\* backend.get_task_id(key)
BackendGet(key) ==
    /\ fin.n < MaxOps
    /\ fin' = [n |-> fin.n + 1, op |-> "get_task_id", key |-> key,
               task_id |-> None, ttl |-> 0]
    /\ fout' = [fout EXCEPT !.result = get_task_id(key), !.raised = FALSE]
    /\ UNCHANGED <<now, unique_backend, redis, tasks, ncalls, pc, call, local,
                   trace, published, revoked>>

\* backend.revoke_extant_task(key)
BackendRevoke(key) ==
    /\ fin.n < MaxOps
    /\ fin' = [n |-> fin.n + 1, op |-> "revoke_extant_task", key |-> key,
               task_id |-> None, ttl |-> 0]
    /\ fout' = [fout EXCEPT !.result = None, !.raised = FALSE]
    /\ IF unique_backend = "redis"
       THEN redis' = RedisDelete(key) /\ UNCHANGED tasks
       ELSE tasks' = InMemoryBackend_revoke_extant_task(key) /\ UNCHANGED redis
    /\ UNCHANGED <<now, unique_backend, ncalls, pc, call, local, trace,
                   published, revoked>>

NextBack ==
    \/ \E key \in BackKeys : \E task_id \in BackIds : \E ttl \in BackTtls :
            BackendCreate(key, task_id, ttl)
    \/ \E key \in BackKeys : BackendGet(key)
    \/ \E key \in BackKeys : BackendRevoke(key)
    \/ Tick

SpecBack == InitBack /\ [][NextBack]_vars

\* ------------------------------------------------- failing operations
\* The single caller over a backend and primitives whose next call may
\* raise, as a mock with a side_effect does. fin is the last failure injected.
Errors == {"ConnectionError", "TimeoutError"}

NoFault == [n |-> 0, serial |-> 0, op |-> "none", exc |-> None]

InitFault ==
    /\ InitProtocol
    /\ fin = NoFault
    /\ fout = NoFout

\* The backend method apply_async calls at the statement `at`.
BackendOpAt(at) ==
    CASE at = "lookup" -> "get_task_id"
      [] at = "delete" -> "revoke_extant_task"
      [] at = "record" -> "create_task_record"

FaultCalls(t) ==
    Inputs(Names, {"first"}, {unique_backend}, ArgsSet, {None},
           {MkOptions({}, {OneSecond}, {})})

\* The operation apply_async issues at the statement `at`: a backend
\* method, the revoke primitive, the underlying apply_async, the ttl helper.
OpAt(at) ==
    CASE at \in {"lookup", "delete", "record"} -> BackendOpAt(at)
      [] at = "revoke" -> "revoke"
      [] at = "publish" -> "apply_async"
      [] at = "ttl" -> "_make_ttl"

\* The operation the caller is about to issue raises an exception of class
\* cls: it has no effect (the store, the revoked set and the published
\* tasks are left as they were) and the exception leaves apply_async.
Fail(p, cls) ==
    /\ pc[p] \in {"lookup", "revoke", "delete", "publish", "ttl", "record"}
    /\ fin' = [n |-> fin.n + 1, serial |-> local[p].serial,
               op |-> OpAt(pc[p]), exc |-> Err(cls)]
    /\ trace' = [trace EXCEPT ![p] =
            Append(@, Event(OpAt(pc[p]), local[p].key,
                            CASE pc[p] = "record" -> local[p].rv
                              [] pc[p] = "revoke" -> local[p].task_id
                              [] OTHER -> None,
                            IF pc[p] = "record" THEN local[p].ttl ELSE 0))]
    /\ local' = [local EXCEPT ![p].exc = Propagated(Err(cls))]
    /\ pc' = [pc EXCEPT ![p] = Raise(pc[p])]
    /\ UNCHANGED <<now, unique_backend, redis, tasks, ncalls, call, published,
                   revoked, fout>>

NextFault ==
    \/ \E c \in FaultCalls(now) : StartSeq(c)
    \/ Lookup(Caller)
    \/ Revoke(Caller)
    \/ Delete(Caller)
    \/ \E id \in HandleIds(call[Caller].task_id, local[Caller].serial) : Publish(Caller, id)
    \/ MakeTtl(Caller)
    \/ Record(Caller)
    \/ \E cls \in Errors : Fail(Caller, cls)
    \/ Tick

SpecFault == InitFault /\ [][NextFault]_vars

\* The statement the caller is at gets executed: the operation it issues
\* returns or raises.
CallStep ==
    \/ Lookup(Caller)
    \/ Revoke(Caller)
    \/ Delete(Caller)
    \/ \E id \in HandleIds(call[Caller].task_id, local[Caller].serial) : Publish(Caller, id)
    \/ MakeTtl(Caller)
    \/ Record(Caller)
    \/ \E cls \in Errors : Fail(Caller, cls)

\* SpecFault with every operation returning or raising in the end.
SpecLive == SpecFault /\ WF_vars(CallStep)

\* ------------------------------------------------- callers that call again
\* The concurrent callers of Spec, each calling apply_async again once its
\* last call is over, all for one key and within one clock reading (no record
\* expires): a call can find the record of an earlier one while another call
\* is in flight.
RaceCalls(t) ==
    Inputs(Names, {"first"}, {unique_backend}, {<<"1">>}, {None},
           {MkOptions({}, {OneSecond}, {})})

StartRace(p, c) ==
    /\ pc[p] \in {"idle", "returned", "raised"}
    /\ \A q \in Procs : q < p => pc[q] # "idle"
    /\ ncalls < MaxCalls + 1
    /\ Enter(p, c)

NextRace ==
    \/ \E p \in Procs : \E c \in RaceCalls(now) : StartRace(p, c)
    \/ \E p \in Procs : Lookup(p)
    \/ \E p \in Procs : Revoke(p)
    \/ \E p \in Procs : Delete(p)
    \/ \E p \in Procs : \E id \in HandleIds(call[p].task_id, local[p].serial) : Publish(p, id)
    \/ \E p \in Procs : MakeTtl(p)
    \/ \E p \in Procs : Record(p)

SpecRace == Init /\ [][NextRace]_vars

\* ------------------------------------------------- one caller, two keys
\* The single caller making one call more than in SpecSeq, for either of two
\* keys, with or without a task-id override, within one clock reading.
KeysCalls(t) ==
    Inputs(Names, {"first"}, {unique_backend}, ArgsSet, TaskIds,
           {MkOptions({}, {OneSecond}, {})})

StartKeys(c) ==
    /\ pc[Caller] \in {"idle", "returned", "raised"}
    /\ ncalls < MaxCalls + 1
    /\ Enter(Caller, c)

NextKeys ==
    \/ \E c \in KeysCalls(now) : StartKeys(c)
    \/ Lookup(Caller)
    \/ Revoke(Caller)
    \/ Delete(Caller)
    \/ \E id \in HandleIds(call[Caller].task_id, local[Caller].serial) : Publish(Caller, id)
    \/ MakeTtl(Caller)
    \/ Record(Caller)

SpecKeys == Init /\ [][NextKeys]_vars

\* ------------------------------------------------- callers and the clock
\* The concurrent callers of Spec, one call each for one key, with the clock
\* running while they are inside apply_async: a call can write its record
\* over the live record of another, at a later clock value and with another
\* ttl (a countdown of one second, an eta two seconds after the call).
ClockCalls(t) ==
    Inputs(Names, {"first"}, {unique_backend}, {<<"1">>}, {None},
           {MkOptions({}, {OneSecond}, {}), MkOptions({t + 2 * OneSecond}, {}, {})})

NextClock ==
    \/ \E p \in Procs : \E c \in ClockCalls(now) : Start(p, c)
    \/ \E p \in Procs : Lookup(p)
    \/ \E p \in Procs : Revoke(p)
    \/ \E p \in Procs : Delete(p)
    \/ \E p \in Procs : \E id \in HandleIds(call[p].task_id, local[p].serial) : Publish(p, id)
    \/ \E p \in Procs : MakeTtl(p)
    \/ \E p \in Procs : Record(p)
    \/ Tick

SpecClock == Init /\ [][NextClock]_vars

\* ------------------------------------------------- names and keys with ':'
\* The single caller dispatching two tasks, one named 'jobs' and one named
\* 'jobs:mail', whose key generator returns its argument, '7' or 'mail:7'.
CollNames == {<<"jobs">>, <<"jobs", ":", "mail">>}
CollArgs == {<< <<"7">> >>, << <<"mail", ":", "7">> >>}

CollCalls(t) ==
    Inputs(CollNames, {"str"}, {unique_backend}, CollArgs, {None},
           {MkOptions({}, {OneSecond}, {})})

NextColl ==
    \/ \E c \in CollCalls(now) : StartSeq(c)
    \/ Lookup(Caller)
    \/ Revoke(Caller)
    \/ Delete(Caller)
    \/ \E id \in HandleIds(call[Caller].task_id, local[Caller].serial) : Publish(Caller, id)
    \/ MakeTtl(Caller)
    \/ Record(Caller)

SpecColl == Init /\ [][NextColl]_vars

\* ------------------------------------------------- the legacy mixin
\* celery_unique.py: UniqueTaskMixin working on redis_client directly, run on
\* the calls the caller makes to the mixin of core.py over RedisBackend, each
\* on a keyspace of its own that starts empty, with the same clock and the
\* same handle from the underlying apply_async. fin is the legacy side: its
\* keyspace, the number of calls it has made, and for the last one its
\* qualification decision, the operations it issued and how it ended.
UNIQUE_REDIS_KEY_PREFIX == <<"celery_unique">>

\* should_handle_as_unique_task of the legacy apply_async.
Legacy_should_handle_as_unique_task(unique_key, redis_client, options) ==
    /\ Callable(unique_key)
    /\ ("eta" \in DOMAIN options \/ "countdown" \in DOMAIN options)
    /\ redis_client # "None"

\* '{prefix}:{task_name}:{unique_key}'.format(...)
_make_redis_key(name, unique_key, callback_args, callback_kwargs) ==
    UNIQUE_REDIS_KEY_PREFIX \o <<":">> \o name \o <<":">>
        \o KeyGenerator(unique_key, callback_args, callback_kwargs)

\* self.redis_client.get(redis_key) on the keyspace store at clock value t.
LegacyGet(store, redis_key, t) ==
    IF redis_key \in DOMAIN store /\ t < store[redis_key].exp
    THEN store[redis_key].value ELSE None

\* The operations of _revoke_extant_unique_task_if_exists: the get, and for
\* a value that is not None the revoke of that value and the delete.
_revoke_extant_unique_task_if_exists(store, redis_key, t) ==
    <<Event("get", redis_key, None, 0)>>
        \o IF LegacyGet(store, redis_key, t) # None
           THEN <<Event("revoke", redis_key, LegacyGet(store, redis_key, t), 0),
                  Event("delete", redis_key, None, 0)>>
           ELSE <<>>

\* The keyspace after _revoke_extant_unique_task_if_exists.
LegacyRevoked(store, redis_key, t) ==
    IF LegacyGet(store, redis_key, t) # None
    THEN [k \in DOMAIN store \ {redis_key} |-> store[k]]
    ELSE store

\* _create_unique_task_record: self.redis_client.set(redis_key, task_id, ex=ttl)
_create_unique_task_record(store, redis_key, task_id, ttl, t) ==
    (redis_key :> [value |-> Encode(task_id), exp |-> t + ttl]) @@ store

\* The legacy _make_ttl_for_unique_task_record.
Legacy_make_ttl_for_unique_task_record(task_options, t) ==
    LET base == IF "eta" \in DOMAIN task_options
                THEN IntSeconds(task_options.eta - t)
                ELSE IF "countdown" \in DOMAIN task_options
                     THEN task_options.countdown ELSE OneSecond
        seconds_until_expiry ==
            IF task_options.expires.type = "datetime"
            THEN IntSeconds(task_options.expires.v - t)
            ELSE task_options.expires.v
        ttl_seconds == IF "expires" \in DOMAIN task_options /\ seconds_until_expiry < base
                       THEN seconds_until_expiry ELSE base
    IN  IF ttl_seconds <= 0 THEN OneSecond ELSE ttl_seconds

NoLegacy == [redis |-> <<>>, n |-> 0, unique |-> FALSE, ops |-> <<>>, ended |-> "none"]

InitLegacy ==
    /\ InitProtocol
    /\ unique_backend = "redis"
    /\ fin = NoLegacy
    /\ fout = NoFout

LegacyCalls(t) ==
    Inputs(Names, {"first"}, {unique_backend}, ArgsSet, {None},
           {MkOptions({}, {OneSecond}, {}), MkOptions({}, {1}, {})})
        \cup PassThroughCalls(t)

\* The caller makes its next call, to the mixin of core.py first.
StartBoth(c) ==
    /\ fin.n = ncalls
    /\ StartSeq(c)

\* The legacy apply_async, on the arguments of the call just made to the
\* mixin of core.py; the handle of the underlying apply_async is the same.
LegacyApplyAsync ==
    /\ pc[Caller] \in {"returned", "raised"}
    /\ fin.n < ncalls
    /\ LET c == call[Caller]
           rv == local[Caller].rv
           unique == Legacy_should_handle_as_unique_task(c.unique_key, c.backend, c.options)
           unique_redis_key == IF unique
                               THEN _make_redis_key(c.name, c.unique_key, c.args, c.kwargs)
                               ELSE <<>>
           before == IF unique
                     THEN _revoke_extant_unique_task_if_exists(fin.redis, unique_redis_key, now)
                     ELSE <<>>
           store == IF unique THEN LegacyRevoked(fin.redis, unique_redis_key, now)
                    ELSE fin.redis
           ttl == Legacy_make_ttl_for_unique_task_record(c.options, now)
       IN  fin' = [redis |-> IF unique /\ RedisSetAccepts(ttl)
                             THEN _create_unique_task_record(store, unique_redis_key, rv, ttl, now)
                             ELSE store,
                   n |-> fin.n + 1,
                   unique |-> unique,
                   ops |-> before \o <<Event("publish", unique_redis_key, rv, 0)>>
                            \o IF unique THEN <<Event("set", unique_redis_key, rv, ttl)>>
                               ELSE <<>>,
                   ended |-> IF unique /\ ~RedisSetAccepts(ttl) THEN "raised"
                             ELSE "returned"]
    /\ UNCHANGED <<now, unique_backend, redis, tasks, ncalls, pc, call, local,
                   trace, published, revoked, fout>>

\* Time passes between two calls.
TickBothIdle ==
    /\ fin.n = ncalls
    /\ pc[Caller] \in {"idle", "returned", "raised"}
    /\ Tick

NextLegacy ==
    \/ \E c \in LegacyCalls(now) : StartBoth(c)
    \/ Lookup(Caller)
    \/ Revoke(Caller)
    \/ Delete(Caller)
    \/ \E id \in HandleIds(call[Caller].task_id, local[Caller].serial) : Publish(Caller, id)
    \/ MakeTtl(Caller)
    \/ Record(Caller)
    \/ LegacyApplyAsync
    \/ TickBothIdle

SpecLegacy == InitLegacy /\ [][NextLegacy]_vars

\* ------------------------------------------------- the two backends abreast
\* The same create_task_record, get_task_id and revoke_extant_task calls made
\* on a RedisBackend and on an InMemoryBackend, both empty at first, with
\* task ids that are strs and ttls that are whole seconds. fin is the last
\* call made; fout holds what get_task_id returned on each backend and the
\* last create per key.
BothTtls == {OneSecond, 2 * OneSecond}

NoBoth == [redis |-> None, memory |-> None, written |-> <<>>]

InitBoth ==
    /\ InitProtocol
    /\ fin = NoOp
    /\ fout = NoBoth

BothCreate(key, task_id, ttl) ==
    /\ fin.n < MaxOps
    /\ fin' = [n |-> fin.n + 1, op |-> "create_task_record", key |-> key,
               task_id |-> task_id, ttl |-> ttl]
    /\ redis' = RedisSet(key, task_id, ttl)
    /\ tasks' = InMemoryBackend_create_task_record(key, task_id, ttl)
    /\ fout' = [fout EXCEPT !.written = (key :> [at |-> now, ttl |-> ttl]) @@ @]
    /\ UNCHANGED <<now, unique_backend, ncalls, pc, call, local, trace,
                   published, revoked>>

BothGet(key) ==
    /\ fin.n < MaxOps
    /\ fin' = [n |-> fin.n + 1, op |-> "get_task_id", key |-> key,
               task_id |-> None, ttl |-> 0]
    /\ fout' = [fout EXCEPT !.redis = RedisBackend_get_task_id(key),
                            !.memory = InMemoryBackend_get_task_id(key)]
    /\ UNCHANGED <<now, unique_backend, redis, tasks, ncalls, pc, call, local,
                   trace, published, revoked>>

BothRevoke(key) ==
    /\ fin.n < MaxOps
    /\ fin' = [n |-> fin.n + 1, op |-> "revoke_extant_task", key |-> key,
               task_id |-> None, ttl |-> 0]
    /\ redis' = RedisDelete(key)
    /\ tasks' = InMemoryBackend_revoke_extant_task(key)
    /\ UNCHANGED <<now, unique_backend, ncalls, pc, call, local, trace,
                   published, revoked, fout>>

NextBoth ==
    \/ \E key \in BackKeys : \E task_id \in BackIds : \E ttl \in BothTtls :
            BothCreate(key, task_id, ttl)
    \/ \E key \in BackKeys : BothGet(key)
    \/ \E key \in BackKeys : BothRevoke(key)
    \/ Tick

SpecBoth == InitBoth /\ [][NextBoth]_vars

\* ------------------------------------------------------------- properties
Ops(p) == [i \in 1..Len(trace[p]) |-> trace[p][i].op]
Count(p, op) == Cardinality({i \in 1..Len(trace[p]) : trace[p][i].op = op})
IsPrefix(s, t) == Len(s) <= Len(t) /\ \A i \in 1..Len(s) : s[i] = t[i]
Moved(p) == pc'[p] # pc[p]

\* The qualification of a call as section 4.2 of the specification words it.
Qualifies(c) ==
    /\ c.unique_key \in {"static", "first", "str"}
    /\ {"eta", "countdown"} \cap DOMAIN c.options # {}
    /\ c.backend # "None"

\* The call's lookup has returned, and it returned None.
SawNone(p) ==
    /\ \E i \in 1..Len(trace[p]) :
            trace[p][i].op = "get_task_id" /\ trace[p][i].id = None
    /\ local[p].task_id = None

\* The published tasks of a key that nobody has revoked.
Unrevoked(key) ==
    {s \in DOMAIN published : published[s].key = key /\ published[s].id \notin revoked}

AfterRevokeStage == {"publish", "ttl", "record", "returned", "raised"}

\* C1 as claimed: with the redis backend and one caller at a time, once a
\* qualifying call for key k is past its revoke stage, every task an earlier
\* qualifying call published (and recorded) for k whose eta or countdown has
\* not elapsed has been passed to the revoke primitive.
C1_ReplacesPending ==
    \A s \in DOMAIN published :
        ( /\ unique_backend = "redis"
          /\ Qualifies(call[Caller])
          /\ pc[Caller] \in AfterRevokeStage
          /\ s < local[Caller].serial
          /\ published[s].key = local[Caller].key
          /\ published[s].tracked
          /\ published[s].runAt > now )
        => published[s].id \in revoked

\* C1 as amended: with the redis backend and one caller at a time, a
\* qualifying call for key k whose lookup happens while the record of an
\* earlier, unrevoked task of k has not reached its deadline (write time plus
\* ttl) reads that task's id and passes it to the revoke primitive.
C1_ReplacesWhileRecorded ==
    [][ (unique_backend = "redis" /\ Qualifies(call[Caller])) =>
        /\ (pc[Caller] = "lookup" /\ Moved(Caller)) =>
            \A s \in DOMAIN published :
                ( /\ published[s].key = local[Caller].key
                  /\ published[s].tracked
                  /\ published[s].id \notin revoked
                  /\ now < published[s].deadline )
                => (local'[Caller].task_id = published[s].id /\ pc'[Caller] = "revoke")
        /\ (pc[Caller] = "revoke" /\ Moved(Caller)) =>
            (local[Caller].task_id \in revoked' /\ pc'[Caller] = "delete")
      ]_vars

\* C1 witness: the caller has just revoked the recorded task of an earlier
\* call whose release time is still ahead.
C1_Witness ==
    /\ unique_backend = "redis"
    /\ pc[Caller] = "delete"
    /\ \E s \in DOMAIN published :
        /\ s < local[Caller].serial
        /\ published[s].id = local[Caller].task_id
        /\ published[s].runAt > now
        /\ published[s].id \in revoked

OrderWithRevoke ==
    <<"make_key", "get_task_id", "revoke", "revoke_extant_task", "apply_async",
      "_make_ttl", "create_task_record">>
OrderWithoutRevoke ==
    <<"make_key", "get_task_id", "apply_async", "_make_ttl", "create_task_record">>

\* C2: the operations of a qualifying call occur in the order key, lookup,
\* revoke and delete (only after a lookup that found a record), publish, ttl,
\* record write; the record write carries the id the publish returned.
C2_StepOrder ==
    \A p \in Procs : Qualifies(call[p]) =>
        /\ \/ /\ IsPrefix(Ops(p), OrderWithRevoke)
              /\ Len(trace[p]) >= 3 => trace[p][2].id # None
           \/ /\ IsPrefix(Ops(p), OrderWithoutRevoke)
              /\ Len(trace[p]) >= 3 => trace[p][2].id = None
        /\ \A i \in 1..Len(trace[p]) : trace[p][i].op = "create_task_record" =>
                \E j \in 1..(i - 1) :
                    trace[p][j].op = "apply_async" /\ trace[p][j].id = trace[p][i].id

\* C2 witness: a call that went through all seven operations.
C2_Witness == \E p \in Procs : Ops(p) = OrderWithRevoke

\* C3 as claimed: when the lookup of a qualifying call finds old_id, then as
\* the call returns it has revoked exactly once, old_id, deleted the record
\* once, and get_task_id of the key is no longer old_id.
C3_RevokeBeforePublish ==
    [][ \A p \in Procs :
            ( /\ pc[p] = "record" /\ pc'[p] = "returned"
              /\ Qualifies(call[p])
              /\ local[p].task_id # None )
            => /\ Count(p, "revoke") = 1
               /\ \A i \in 1..Len(trace[p]) :
                    trace[p][i].op = "revoke" => trace[p][i].id = local[p].task_id
               /\ Count(p, "revoke_extant_task") = 1
               /\ get_task_id(local[p].key)' # local[p].task_id
      ]_vars

\* C4: as a qualifying call returns, the backend holds a record for its key
\* whose value is the task id of the handle the call returns.
C4_PostDispatchRecord ==
    [][ \A p \in Procs :
            (pc[p] = "record" /\ pc'[p] = "returned" /\ Qualifies(call[p]))
            => /\ get_task_id(local[p].key)' = local[p].rv
               /\ local[p].rv # None
               /\ published[local[p].serial].id = local[p].rv
      ]_vars

\* C4 witness: a call that found a record before it has returned, and the
\* backend holds its new id.
C4_Witness ==
    \E p \in Procs :
        /\ pc[p] = "returned" /\ Qualifies(call[p])
        /\ local[p].task_id # None
        /\ get_task_id(local[p].key) = local[p].rv

\* C5: _handle_as_unique is true exactly when the key generator is callable,
\* eta or countdown is among the options, and a backend is configured.
C5_Qualification ==
    fout.unique # <<>> =>
        fout.unique[1] =
            ( /\ fin.unique_key \in {"static", "first"}
              /\ ("eta" \in DOMAIN fin.options \/ "countdown" \in DOMAIN fin.options)
              /\ fin.backend \in {"redis", "memory"} )

\* C5 witness: the predicate was false for a configured task given only an
\* expires option.
C5_Witness ==
    /\ fout.unique = <<FALSE>>
    /\ fin.unique_key = "first" /\ fin.backend = "redis"
    /\ DOMAIN fin.options = {"expires"}

\* C6: a step of a call that does not qualify changes neither backend nor
\* the revoked set, and the only operation such a call issues is the publish.
C6_Gating ==
    [][ \A p \in Procs :
            (Moved(p) /\ ~Qualifies(call'[p]) /\ pc'[p] # "idle")
            => /\ redis' = redis /\ tasks' = tasks /\ revoked' = revoked
               /\ \A i \in 1..Len(trace'[p]) : trace'[p][i].op = "apply_async"
      ]_vars

\* C6 witness: an immediate dispatch has returned while the backend holds a
\* record under the key its arguments derive.
C6_Witness ==
    \E p \in Procs :
        /\ pc[p] = "returned" /\ ~Qualifies(call[p])
        /\ call[p].unique_key = "first" /\ call[p].backend # "None"
        /\ get_task_id(make_key(call[p].name, call[p].unique_key,
                                call[p].args, call[p].kwargs)) # None

\* C7: a qualifying call whose lookup returned None issues neither the revoke
\* primitive nor the backend delete, goes on to publish, and has published
\* and written its record once it returns.
C7_NoOpRevoke ==
    \A p \in Procs : (Qualifies(call[p]) /\ SawNone(p)) =>
        /\ Count(p, "revoke") = 0
        /\ Count(p, "revoke_extant_task") = 0
        /\ pc[p] \in {"publish", "ttl", "record", "returned", "raised"}
        /\ pc[p] = "returned" =>
            Count(p, "apply_async") = 1 /\ Count(p, "create_task_record") = 1

\* C7 witness: such a call has returned.
C7_Witness ==
    \E p \in Procs : pc[p] = "returned" /\ Qualifies(call[p]) /\ SawNone(p)

\* C8: a call never publishes twice, and one that has returned has published
\* exactly once, with the caller's arguments unchanged, and returns the
\* handle the primitive returned.
C8_AlwaysDelegate ==
    \A p \in Procs :
        /\ Count(p, "apply_async") <= 1
        /\ pc[p] = "returned" =>
            /\ Count(p, "apply_async") = 1
            /\ local[p].sent = call[p]
            /\ local[p].serial \in DOMAIN published
            /\ published[local[p].serial].id = local[p].rv
            /\ \A i \in 1..Len(trace[p]) :
                    trace[p][i].op = "apply_async" => trace[p][i].id = local[p].rv

\* C8 witness: a pass-through call and a call with a task-id override have
\* both returned.
C8_Witness ==
    \E p, q \in Procs :
        /\ pc[p] = "returned" /\ ~Qualifies(call[p])
        /\ pc[q] = "returned" /\ call[q].task_id = GivenId /\ local[q].rv = GivenId

\* C9: when two qualifying calls for one key have both read None and no
\* other call touches the key, then as the later one returns neither has
\* revoked anything, both tasks are published and unrevoked, and the backend
\* holds the id of the one that wrote last.
C9_Race ==
    [][ \A p, q \in Procs :
            ( /\ p # q
              /\ pc[p] = "record" /\ pc'[p] = "returned" /\ pc[q] = "returned"
              /\ Qualifies(call[p]) /\ Qualifies(call[q])
              /\ local[p].key = local[q].key
              /\ SawNone(p) /\ SawNone(q)
              /\ \A r \in Procs \ {p, q} : local[r].key # local[p].key )
            => /\ Count(p, "revoke") = 0 /\ Count(q, "revoke") = 0
               /\ {local[p].serial, local[q].serial} \subseteq Unrevoked(local[p].key)'
               /\ get_task_id(local[p].key)' = local[p].rv
      ]_vars

\* C9 witness: on the in-memory backend (no expiry) both calls read None,
\* both have returned, two unrevoked tasks are published for the key and the
\* backend records only one of them.
C9_Witness ==
    \E p, q \in Procs :
        /\ p # q /\ unique_backend = "memory"
        /\ pc[p] = "returned" /\ pc[q] = "returned"
        /\ Qualifies(call[p]) /\ Qualifies(call[q])
        /\ local[p].key = local[q].key
        /\ SawNone(p) /\ SawNone(q)
        /\ Cardinality(Unrevoked(local[p].key)) = 2
        /\ local[p].rv # local[q].rv
        /\ get_task_id(local[p].key) = local[p].rv

\* C10 as claimed: _make_ttl_for_unique_task_record returns at least one
\* second for every option dict.
C10_TtlFloor == fout.ttl # <<>> => fout.ttl[1] >= OneSecond

\* A duration d (in ticks) in whole seconds: the multiple of a second nearest
\* to d between zero and d.
WholeSeconds(d) ==
    CHOOSE m \in (IF d >= 0 THEN 0..d ELSE d..0) :
        /\ m % TicksPerSec = 0
        /\ \A n \in (IF d >= 0 THEN (m + 1)..d ELSE d..(m - 1)) : n % TicksPerSec # 0

\* The floor of section 4.3, step 3: a value <= 0 becomes 1.
Floored(x) == IF x <= 0 THEN OneSecond ELSE x

\* The base value of section 4.3, step 1.
ClaimedBase(options, t) ==
    IF "eta" \in DOMAIN options THEN WholeSeconds(options.eta - t)
    ELSE IF "countdown" \in DOMAIN options THEN options.countdown
    ELSE OneSecond

\* The expiry seconds of section 4.3, step 2.
ClaimedExpiry(expires, t) ==
    IF expires.type = "number" THEN expires.v ELSE WholeSeconds(expires.v - t)

C12_ExpiryClamp ==
    (fout.ttl # <<>> /\ "expires" \in DOMAIN fin.options) =>
        LET base == ClaimedBase(fin.options, fin.t)
            secs == ClaimedExpiry(fin.options.expires, fin.t)
        IN  fout.ttl[1] = Floored(IF secs < base THEN secs ELSE base)

\* C12 witness: a point-in-time expires whose whole seconds are fewer than
\* the base replaced it, and a larger one left the base alone.
C12_Witness ==
    /\ fout.ttl # <<>>
    /\ DOMAIN fin.options = {"countdown", "expires"}
    /\ fin.options.expires.type = "datetime"
    /\ fout.ttl[1] = WholeSeconds(fin.options.expires.v - fin.t)
    /\ fout.ttl[1] < fin.options.countdown
    /\ fout.ttl[1] # fin.options.expires.v - fin.t

\* The ttl of section 4.3 as a function of the options and the clock alone.
ClaimedTtl(options, t) ==
    LET base == ClaimedBase(options, t) IN
    Floored(IF /\ "expires" \in DOMAIN options
               /\ ClaimedExpiry(options.expires, t) < base
            THEN ClaimedExpiry(options.expires, t) ELSE base)

\* C13: the ttl a call computes is one fixed function of its options and the
\* clock value, whatever the backend holds and whatever was dispatched
\* before, and the step that computes it leaves both stores, the revoked set
\* and the published tasks as they were.
C13_TtlPurity ==
    [][ \A p \in Procs : (pc[p] = "ttl" /\ Moved(p)) =>
            /\ local'[p].ttl = ClaimedTtl(call[p].options, now)
            /\ redis' = redis /\ tasks' = tasks
            /\ revoked' = revoked /\ published' = published
            /\ Ops(p)' = Ops(p) \o <<"_make_ttl">>
      ]_vars

\* C13 witness: a call has computed a ttl other than one second while the
\* backend held the record of an earlier call, published before it.
C13_Witness ==
    /\ pc[Caller] = "record"
    /\ local[Caller].ttl # OneSecond
    /\ \E s \in DOMAIN published :
            /\ s < local[Caller].serial
            /\ published[s].tracked
            /\ get_task_id(published[s].key) = published[s].id

\* C14: the key of a qualifying call is the prefix, the task name and the
\* key fragment joined by ':' in that order, the fragment being the task's
\* key generator applied to the call's args and kwargs; nothing else of the
\* call (options, task-id override, earlier calls) enters it.
C14_KeyDerivation ==
    \A p \in Procs : local[p].unique =>
        local[p].key =
            <<"celery_unique", ":">> \o call[p].name \o <<":">>
                \o KeyGenerator(call[p].unique_key, call[p].args, call[p].kwargs)

\* C14 witness: a call with a task-id override and a countdown derived the
\* key under which an earlier call, without override and with other
\* options, published its task.
C14_Witness ==
    /\ local[Caller].unique
    /\ call[Caller].task_id = GivenId
    /\ "countdown" \in DOMAIN call[Caller].options
    /\ \E s \in DOMAIN published :
            /\ s < local[Caller].serial
            /\ published[s].key = local[Caller].key
            /\ published[s].id = Uuid(s)
            /\ published[s].runAt # RunAt(call[Caller].options, now)

\* The store of the configured backend holds a record for key: a redis key
\* that has not expired, an entry of the in-memory dict.
HasRecord(key) ==
    IF unique_backend = "redis" THEN key \in DOMAIN redis /\ now < redis[key].exp
    ELSE key \in DOMAIN tasks

\* C15: on either backend, the lookup of a qualifying call whose key has no
\* record returns None, does not raise and leaves the store as it was, and
\* the call goes straight on to publish.
C15_AbsentLookup ==
    [][ \A p \in Procs :
            (pc[p] = "lookup" /\ Moved(p) /\ ~HasRecord(local[p].key)) =>
                /\ local'[p].task_id = None
                /\ redis' = redis /\ tasks' = tasks
                /\ pc'[p] = "publish"
      ]_vars

\* C15 witness: on redis, a call has read None for a key without record and
\* has returned without revoking, and the store holds another key's record.
C15_Witness ==
    \E p \in Procs :
        /\ unique_backend = "redis"
        /\ pc[p] = "returned" /\ Qualifies(call[p]) /\ SawNone(p)
        /\ Count(p, "revoke") = 0
        /\ \E k \in DOMAIN redis : k # local[p].key

\* A step that is a direct call of the backend method op.
Called(op) == fin'.n # fin.n /\ fin'.op = op

\* C16 as claimed: on either backend, for every key and task id, a
\* get_task_id of the key right after a create_task_record that returned
\* gives the task id just written, whether or not the key had a record.
C16_RoundTrip ==
    [][ \A key \in BackKeys :
            (Called("create_task_record") /\ fin'.key = key /\ ~fout'.raised) =>
                get_task_id(key)' = fin'.task_id
      ]_vars

\* C17: on either backend, revoke_extant_task(key) returns without raising
\* and leaves no record for key; on a key without record it changes nothing;
\* called a second time in a row on the key it leaves the store as the
\* first call left it.
C17_IdempotentRevoke ==
    [][ \A key \in BackKeys :
            (Called("revoke_extant_task") /\ fin'.key = key) =>
                /\ ~fout'.raised
                /\ ~HasRecord(key)' /\ get_task_id(key)' = None
                /\ ~HasRecord(key) => (redis' = redis /\ tasks' = tasks)
                /\ (fin.op = "revoke_extant_task" /\ fin.key = key) =>
                        (redis' = redis /\ tasks' = tasks)
      ]_vars

\* C17 witness: the in-memory backend was revoked twice in a row on a key
\* whose record the first call removed, and still holds another key's record.
C17_Witness ==
    /\ unique_backend = "memory"
    /\ fin.n = MaxOps /\ fin.op = "revoke_extant_task"
    /\ fin.key \in DOMAIN fout.written
    /\ fin.key \notin DOMAIN tasks
    /\ tasks # <<>>

\* C18: a record of the in-memory backend is returned by get_task_id, with
\* the task id written, after every step that is neither a
\* revoke_extant_task nor a create_task_record on its key, the passing of
\* time included, whatever ttl it was written with.
C18_MemoryKeepsRecords ==
    [][ unique_backend = "memory" =>
            \A key \in DOMAIN tasks :
                ~( \/ Called("revoke_extant_task") /\ fin'.key = key
                   \/ Called("create_task_record") /\ fin'.key = key )
                => get_task_id(key)' = tasks[key]
      ]_vars

\* C18 witness: get_task_id has returned the task id of a record of the
\* in-memory backend whose ttl had run out.
C18_Witness ==
    /\ unique_backend = "memory"
    /\ fin.op = "get_task_id"
    /\ fin.key \in DOMAIN fout.written
    /\ now >= fout.written[fin.key].at + fout.written[fin.key].ttl
    /\ fout.result = fout.written[fin.key].task_id
    /\ fout.result # None

\* C19: on redis the remaining lifetime of a record never exceeds the ttl
\* of the last create_task_record on its key, and once that ttl has run out
\* get_task_id of the key gives None.
C19_RedisEnforcesTtl ==
    unique_backend = "redis" =>
        \A key \in DOMAIN fout.written :
            LET w == fout.written[key] IN
            /\ HasRecord(key) => redis[key].exp - now <= w.ttl
            /\ now >= w.at + w.ttl => get_task_id(key) = None

\* C19 witness: a record was written to redis and, with no other call
\* in between, get_task_id gave None once its ttl had run out.
C19_Witness ==
    /\ unique_backend = "redis"
    /\ fin.n = 2 /\ fin.op = "get_task_id"
    /\ fin.key \in DOMAIN fout.written
    /\ fout.written[fin.key].task_id # EmptyStr
    /\ now = fout.written[fin.key].at + fout.written[fin.key].ttl
    /\ fout.result = None

\* C20: when get_task_id, revoke_extant_task or create_task_record raises
\* inside apply_async, the call ends there with the exception the backend
\* raised, the operation was issued once and not again, nothing else was
\* issued by that step, and the call takes no step after it: a publish that
\* had not happened does not happen and no record is written.
C20_FailurePropagation ==
    [][ \A p \in Procs :
            /\ (fin' # fin /\ pc[p] \in {"lookup", "delete", "record"}) =>
                /\ pc'[p] = "raised"
                /\ local'[p].exc = fin'.exc
                /\ Count(p, fin'.op) = 0
                /\ Ops(p)' = Ops(p) \o <<fin'.op>>
                /\ redis' = redis /\ tasks' = tasks
                /\ revoked' = revoked /\ published' = published
            /\ (pc[p] = "raised" /\ (Moved(p) \/ trace'[p] # trace[p])) =>
                local'[p].serial # local[p].serial
      ]_vars

\* C20 witness: the delete of a call that had found and revoked a record
\* raised; the call has ended with that exception, the record is still in
\* the store and nothing was published by the call.
C20_Witness ==
    /\ pc[Caller] = "raised"
    /\ fin.op = "revoke_extant_task"
    /\ local[Caller].exc = Err("TimeoutError")
    /\ local[Caller].task_id \in revoked
    /\ get_task_id(local[Caller].key) = local[Caller].task_id
    /\ local[Caller].serial \notin DOMAIN published

\* A call is inside apply_async; it is over.
Running(p) == pc[p] \notin {"idle", "returned", "raised"}
Over(p) == pc[p] \in {"returned", "raised"}

\* C21: a call never issues any of its operations more than once, and when
\* every operation it issues returns or raises, a call that has started
\* ends: it returns its handle or it raises.
C21_Termination ==
    /\ [](\A p \in Procs :
            /\ \A op \in {"make_key", "get_task_id", "revoke", "revoke_extant_task",
                          "apply_async", "_make_ttl", "create_task_record"} :
                    Count(p, op) <= 1
            /\ pc[p] = "returned" => local[p].rv # None
            /\ pc[p] = "raised" => local[p].exc # None)
    /\ \A p \in Procs : Running(p) ~> Over(p)

\* C21 witness: a call has issued all seven operations and ended by raising
\* at the last one.
C21_Witness ==
    /\ pc[Caller] = "raised"
    /\ Ops(Caller) = OrderWithRevoke
    /\ fin.op = "create_task_record" /\ fin.serial = local[Caller].serial

\* C22: a qualifying apply_async that has returned made its key once, called
\* get_task_id exactly once, revoke_extant_task at most once and
\* create_task_record exactly once, each with the key of the call; and in any
\* call, whatever its inputs, create_task_record has been called only if
\* get_task_id was, and a call that returned called the one exactly when it
\* called the other.
C22_CallShape ==
    \A p \in Procs :
        /\ Count(p, "create_task_record") > 0 => Count(p, "get_task_id") = 1
        /\ pc[p] = "returned" =>
            /\ Count(p, "create_task_record") = Count(p, "get_task_id")
            /\ Qualifies(call[p]) =>
                /\ Count(p, "make_key") = 1
                /\ Count(p, "get_task_id") = 1
                /\ Count(p, "revoke_extant_task") <= 1
                /\ Count(p, "create_task_record") = 1
                /\ \A i \in 1..Len(trace[p]) :
                        trace[p][i].key = make_key(call[p].name, call[p].unique_key,
                                                   call[p].args, call[p].kwargs)

\* C22 witness: two qualifying calls have returned: one that found no record
\* and deleted nothing, and one that found and deleted the first one's record.
C22_Witness ==
    /\ \E p, q \in Procs :
        /\ pc[p] = "returned" /\ pc[q] = "returned"
        /\ Qualifies(call[p]) /\ Qualifies(call[q])
        /\ Count(p, "revoke_extant_task") = 0
        /\ Count(q, "revoke_extant_task") = 1
        /\ local[q].task_id = local[p].rv

\* C23: the task id a qualifying apply_async passed to the revoke primitive is
\* never the id of the task the same call published.
C23_NoSelfRevocation ==
    \A p \in Procs :
        \A i, j \in 1..Len(trace[p]) :
            trace[p][i].op = "revoke" /\ trace[p][j].op = "apply_async"
                => trace[p][i].id # trace[p][j].id

\* The calls that published a task for key, by serial number, and the last.
PublishedFor(key) == {s \in DOMAIN published : published[s].key = key}
LatestFor(key) == CHOOSE s \in PublishedFor(key) : \A r \in PublishedFor(key) : r <= s

\* Every call made for key so far has returned (its record was written) and
\* no record of the key has expired: on redis each one is within its ttl, or
\* was found, and its task revoked, by a later call.
NoneExpired(key) ==
    \A s \in PublishedFor(key) :
        /\ published[s].tracked
        /\ \/ unique_backend = "memory"
           \/ now < published[s].deadline
           \/ s # LatestFor(key) /\ published[s].id \in revoked

\* C24: with one caller at a time, each time a qualifying call has returned,
\* for every key whose calls all returned and none of whose records expired:
\* the tasks published for the key that have not been passed to the revoke
\* primitive are at most the one published last, and the backend records the
\* id of the one published last.
C24_SingleSurvivor ==
    pc[Caller] = "returned" /\ Qualifies(call[Caller]) =>
        \A s \in DOMAIN published :
            LET key == published[s].key IN
            key # <<>> /\ NoneExpired(key) =>
                /\ Unrevoked(key) \subseteq {LatestFor(key)}
                /\ get_task_id(key) = published[LatestFor(key)].id

\* C24 witness: the second of two qualifying calls for one key has returned
\* within the ttl of its record; the first one's task is revoked and the
\* second one's is the only survivor.
C24_Witness ==
    /\ pc[Caller] = "returned" /\ Qualifies(call[Caller])
    /\ Cardinality(PublishedFor(local[Caller].key)) = 2
    /\ NoneExpired(local[Caller].key)
    /\ Unrevoked(local[Caller].key) = {local[Caller].serial}
    /\ unique_backend = "redis"

\* C25: whenever a dispatch removes a record with revoke_extant_task(key),
\* concurrent dispatches for the key included, the record removed holds the
\* task id this dispatch read with get_task_id and passed to the revoke
\* primitive, and that id has been revoked.
C25_DeleteOnlyRevoked ==
    [][ \A p \in Procs :
            pc[p] = "delete" /\ Moved(p) /\ HasRecord(local[p].key) =>
                /\ get_task_id(local[p].key) = local[p].task_id
                /\ get_task_id(local[p].key) \in revoked ]_vars

\* No call is in flight and at least one has returned.
AllReturned ==
    /\ \A p \in Procs : pc[p] \in {"idle", "returned"}
    /\ \E p \in Procs : pc[p] = "returned"

\* C26: with qualifying calls for one key interleaved in any way and no
\* expiry, each create_task_record that is executed leaves the key recorded
\* with the id its call published, whatever was there; and the step after
\* which all calls have returned is the last create_task_record, so that the
\* backend then holds a record for the key whose value is the id published by
\* the call that wrote last.
C26_LastWriterWins ==
    [][ /\ \A p \in Procs :
            pc[p] = "record" /\ pc'[p] = "returned" =>
                /\ HasRecord(local[p].key)'
                /\ get_task_id(local[p].key)' = local[p].rv
        /\ ~AllReturned /\ AllReturned' =>
            \E p \in Procs :
                /\ pc[p] = "record" /\ pc'[p] = "returned"
                /\ \A q \in Procs : pc'[q] = "returned" =>
                        /\ HasRecord(local[q].key)'
                        /\ get_task_id(local[q].key)' = local[p].rv ]_vars

\* C26 witness: three calls for one key have returned, and the record holds
\* the id published by a call that was not the last to start.
C26_Witness ==
    /\ AllReturned /\ ncalls = MaxCalls + 1
    /\ \E p, q \in Procs :
        /\ pc[p] = "returned" /\ pc[q] = "returned"
        /\ local[p].serial < local[q].serial
        /\ local[p].key = local[q].key
        /\ get_task_id(local[p].key) = local[p].rv
        /\ local[q].rv \notin revoked

\* The caller's current call has ended with the exception that op raised.
RaisedAt(op) ==
    /\ pc[Caller] = "raised"
    /\ fin.n > 0 /\ fin.serial = local[Caller].serial /\ fin.op = op
    /\ local[Caller].exc = fin.exc

\* C27: when the underlying apply_async raised in a qualifying call that had
\* found a record for its key, the error is the caller's, the task recorded
\* before has been revoked, its record has been deleted, the call has
\* published nothing and written no record, and the key has no record.
C27_NoRollbackOnPublishFailure ==
    pc[Caller] = "raised" /\ fin.serial = local[Caller].serial
        /\ fin.op = "apply_async" /\ local[Caller].task_id # None =>
            /\ local[Caller].exc = fin.exc
            /\ local[Caller].task_id \in revoked
            /\ Ops(Caller) = <<"make_key", "get_task_id", "revoke",
                               "revoke_extant_task", "apply_async">>
            /\ local[Caller].serial \notin DOMAIN published
            /\ ~HasRecord(local[Caller].key)
            /\ get_task_id(local[Caller].key) = None

\* C27 witness: the second call found the first call's record, and its
\* publish raised.
C27_Witness ==
    /\ RaisedAt("apply_async")
    /\ local[Caller].task_id = Uuid(1)
    /\ Uuid(1) \in revoked

\* C28: when the revoke primitive raises in a qualifying call, the call ends
\* there with that exception and the step leaves the backend's stores as they
\* were; the call that ended so has issued make_key, get_task_id and revoke
\* and nothing else (no delete, no publish, no record write), it published
\* nothing, and the record it found is still under the key for as long as it
\* does not expire.
C28_RevokeFailureKeepsState ==
    /\ [][ fin' # fin /\ pc[Caller] = "revoke" =>
                /\ pc'[Caller] = "raised"
                /\ local'[Caller].exc = fin'.exc
                /\ redis' = redis /\ tasks' = tasks
                /\ published' = published ]_vars
    /\ [](pc[Caller] = "raised" /\ fin.serial = local[Caller].serial
              /\ fin.op = "revoke" =>
                /\ Ops(Caller) = <<"make_key", "get_task_id", "revoke">>
                /\ local[Caller].serial \notin DOMAIN published
                /\ HasRecord(local[Caller].key) =>
                        get_task_id(local[Caller].key) = local[Caller].task_id
                /\ unique_backend = "memory" => HasRecord(local[Caller].key))

\* C28 witness: the revoke of the second call raised; the first call's task
\* is not revoked and its record is still there.
C28_Witness ==
    /\ RaisedAt("revoke")
    /\ local[Caller].task_id = Uuid(1)
    /\ get_task_id(local[Caller].key) = Uuid(1)
    /\ Uuid(1) \notin revoked
    /\ DOMAIN published = {1}

StoredKeys == DOMAIN redis \cup DOMAIN tasks

\* C30: every step of a qualifying apply_async whose key is k leaves the
\* record of every other key as it was, in either store, and passes to the
\* revoke primitive no task id that is recorded under another key.
C30_PerKeyFrame ==
    [][ \A p \in Procs :
            (Moved(p) \/ trace'[p] # trace[p]) /\ local'[p].unique =>
                \A k \in StoredKeys \cup StoredKeys' :
                    k # local'[p].key =>
                        /\ (k \in DOMAIN redis <=> k \in DOMAIN redis')
                        /\ (k \in DOMAIN tasks <=> k \in DOMAIN tasks')
                        /\ k \in DOMAIN redis => redis'[k] = redis[k]
                        /\ k \in DOMAIN tasks => tasks'[k] = tasks[k]
                        /\ get_task_id(k) \notin revoked' \ revoked ]_vars

\* C31: on redis, the record a qualifying call writes, over a live record or
\* not, expires at the clock value of the write plus the ttl of that call,
\* which is the ttl of section 4.3 for the call's own options at a clock
\* value during the call; the deadline of the record that was there before
\* does not enter it.
C31_RecordLifetime ==
    [][ \A p \in Procs :
            unique_backend = "redis" /\ pc[p] = "record" /\ pc'[p] = "returned" =>
                /\ local[p].key \in DOMAIN redis'
                /\ redis'[local[p].key].exp = now + local[p].ttl
                /\ \E t \in 0..now : local[p].ttl = ClaimedTtl(call[p].options, t) ]_vars

\* C31 witness: two calls that both found no record have returned; the one
\* that wrote later wrote over the live record of the other, and the record
\* now expires at the later writer's deadline, before the deadline the
\* earlier record had.
C31_Witness ==
    /\ unique_backend = "redis"
    /\ \E p, q \in Procs :
        /\ pc[p] = "returned" /\ pc[q] = "returned"
        /\ local[p].key = local[q].key
        /\ Count(p, "revoke") = 0 /\ Count(q, "revoke") = 0
        /\ published[local[p].serial].deadline - local[p].ttl
                < published[local[q].serial].deadline - local[q].ttl
        /\ published[local[q].serial].deadline < published[local[p].serial].deadline
        /\ local[q].key \in DOMAIN redis
        /\ redis[local[q].key].exp = published[local[q].serial].deadline

\* C32: for an eta lying d >= 1 second after the clock value, with no
\* expires, the ttl is a whole number of seconds that does not exceed d and is
\* greater than d minus one second, so the ttl never exceeds the time left
\* until the eta; and the same holds of the seconds taken from a point-in-time
\* expires lying d >= 1 second ahead, seen where it replaces a longer
\* countdown.
C32_WholeSecondTruncation ==
    fout.ttl # <<>> =>
        /\ ("eta" \in DOMAIN fin.options /\ "expires" \notin DOMAIN fin.options
                /\ fin.options.eta - fin.t >= OneSecond) =>
            /\ fout.ttl[1] % TicksPerSec = 0
            /\ fout.ttl[1] <= fin.options.eta - fin.t
            /\ fout.ttl[1] > fin.options.eta - fin.t - OneSecond
        /\ (DOMAIN fin.options = {"countdown", "expires"}
                /\ fin.options.expires.type = "datetime"
                /\ fin.options.expires.v - fin.t >= OneSecond
                /\ fin.options.countdown > fin.options.expires.v - fin.t) =>
            /\ fout.ttl[1] % TicksPerSec = 0
            /\ fout.ttl[1] <= fin.options.expires.v - fin.t
            /\ fout.ttl[1] > fin.options.expires.v - fin.t - OneSecond

\* C32 witness: an eta more than one second ahead by a fraction of a second,
\* alone in the options, gave a ttl shorter than the time left until it.
C32_Witness ==
    /\ fout.ttl # <<>>
    /\ DOMAIN fin.options = {"eta"}
    /\ fin.options.eta - fin.t > OneSecond
    /\ (fin.options.eta - fin.t) % TicksPerSec # 0
    /\ fout.ttl[1] < fin.options.eta - fin.t
    /\ fout.ttl[1] >= OneSecond

\* Two dispatches of different tasks with different key fragments whose
\* keys are the same.
Collide(c, d) ==
    /\ c.name # d.name
    /\ KeyGenerator(c.unique_key, c.args, c.kwargs)
            # KeyGenerator(d.unique_key, d.args, d.kwargs)
    /\ make_key(c.name, c.unique_key, c.args, c.kwargs)
            = make_key(d.name, d.unique_key, d.args, d.kwargs)

\* C33: with a ':' in a task name or a key fragment, two different (task
\* name, fragment) pairs have the same key; and once a qualifying call has
\* returned, every task that a call of another task name recorded earlier
\* under the same key has been revoked, and the key records the task of the
\* call that returned.
C33_DelimiterCollision ==
    /\ \E c, d \in CollCalls(0) : Collide(c, d)
    /\ pc[Caller] = "returned" =>
        \A s \in DOMAIN published :
            ( /\ s < local[Caller].serial
              /\ published[s].tracked
              /\ published[s].key = local[Caller].key
              /\ published[s].name # call[Caller].name )
            => /\ published[s].id \in revoked
               /\ published[s].id # local[Caller].rv
               /\ get_task_id(local[Caller].key) = local[Caller].rv

\* C33 witness: task 'jobs:mail' with fragment '7' has returned after revoking
\* the task that 'jobs' recorded with fragment 'mail:7' under the same key.
C33_Witness ==
    /\ pc[Caller] = "returned"
    /\ call[Caller].name = <<"jobs", ":", "mail">>
    /\ call[Caller].args = << <<"7">> >>
    /\ local[Caller].task_id = Uuid(1)
    /\ published[1].name = <<"jobs">>
    /\ published[1].key = local[Caller].key
    /\ Uuid(1) \in revoked
    /\ get_task_id(local[Caller].key) = local[Caller].rv

\* A call's operations on the store, on the revoke primitive and on the
\* underlying apply_async, as the store and the primitives see them: what is
\* passed, not what is returned.
IssuedOp(e) ==
    CASE e.op = "get_task_id" -> Event("get", e.key, None, 0)
      [] e.op = "revoke" -> Event("revoke", e.key, e.id, 0)
      [] e.op = "revoke_extant_task" -> Event("delete", e.key, None, 0)
      [] e.op = "apply_async" -> Event("publish", e.key, e.id, 0)
      [] e.op = "create_task_record" -> Event("set", e.key, e.id, e.ttl)

IssuedBy(p) ==
    LET kept == SelectSeq(trace[p], LAMBDA e : e.op \notin {"make_key", "_make_ttl"})
    IN  [i \in 1..Len(kept) |-> IssuedOp(kept[i])]

\* C34: once both mixins have made the same calls from empty keyspaces, they
\* took the same qualification decision on the last call, ended it alike and
\* issued the same sequence of store operations, revokes and publishes, with
\* the same keys, task ids and ttls.
C34_MixinsAgree ==
    (ncalls > 0 /\ fin.n = ncalls) =>
        /\ fin.unique = local[Caller].unique
        /\ fin.ended = pc[Caller]
        /\ fin.ops = IssuedBy(Caller)

\* C35: when the same operations have been applied to an empty RedisBackend
\* and an empty InMemoryBackend and no record written has reached its ttl,
\* a get_task_id has returned the same result on both.
C35_BackendsInterchangeable ==
    ( /\ fin.op = "get_task_id"
      /\ \A key \in DOMAIN fout.written :
            now < fout.written[key].at + fout.written[key].ttl )
    => fout.redis = fout.memory

====
